---- MODULE Spec2Model ----
(***************************************************************************)
(* Model of the radiograph viewer (unioslo-odont/toothnzoom-edu):          *)
(*   - js/image-processor.js  ImageProcessor (pixel pipeline, histogram)   *)
(*   - js/viewer.js           RadiographViewer (parameters, recompute)     *)
(*   - js/controls.js         input handlers (sliders, mouse, touch, keys) *)
(*                                                                         *)
(* Numbers.  JavaScript numbers are modelled exactly, as scaled integers:  *)
(*   brightness, contrast   multiples of 1/PUnit  (held as PUnit * value)  *)
(*   edgeEnhancement        multiples of 1/EUnit  (held as EUnit * value)  *)
(*   intermediate pixel values are fractions with the denominator named    *)
(*   at each place (Q200, Q1000, Q100).                                    *)
(* Math.exp is a fixed-point approximation (ExpNeg), good to about 1e-4.   *)
(* The hard threshold compares doubles; for the colours of this model and  *)
(* every half-step brightness and contrast they order as the exact values. *)
(***************************************************************************)
EXTENDS Integers, Sequences, FiniteSets, TLC

(***************************************************************************)
(* Units                                                                   *)
(***************************************************************************)
PUnit == 2
EUnit == 10
Q200  == 200
Q1000 == 1000
Q100  == 100
ExpScale == 10000

\* F(x), with x evaluated once and held in a constant (const x = ...)
Once(x, F(_)) == CHOOSE r \in { F(y) : y \in {x} } : TRUE

Min(a, b) == IF a < b THEN a ELSE b
Max(a, b) == IF a > b THEN a ELSE b
Abs(a) == IF a < 0 THEN -a ELSE a

(***************************************************************************)
(* Uint8ClampedArray element store: clamp to [0,255] and round to nearest, *)
(* ties to even.  x is a fraction x / q.                                   *)
(***************************************************************************)
ToUint8Clamped(x, q) ==
    IF x <= 0 THEN 0
    ELSE IF x >= 255 * q THEN 255
    ELSE LET lo == x \div q
             r2 == 2 * (x % q)
         IN  IF r2 < q THEN lo
             ELSE IF r2 > q THEN lo + 1
             ELSE IF lo % 2 = 0 THEN lo ELSE lo + 1

\* Math.max(0, Math.min(255, value)) on a fraction value / q
MathClamp255(x, q) == Max(0, Min(255 * q, x))

(***************************************************************************)
(* Math.exp(-x) for x >= 0, x given in thousandths, result scaled by       *)
(* ExpScale: Taylor series below 1/8, squaring of the half above.          *)
(***************************************************************************)
RECURSIVE ExpNeg(_)
ExpNeg(xm) ==
    IF xm > 16000 THEN 0
    ELSE IF xm <= 125
         THEN ExpScale - 10 * xm + ((xm * xm) \div 200) - ((xm * xm * xm) \div 600000)
         ELSE Once(ExpNeg(xm \div 2), LAMBDA h :
                  LET s == (h * h) \div ExpScale
                  IN  IF xm % 2 = 0 THEN s ELSE (s * 9990) \div ExpScale)

\* 255 / (1 + Math.exp(-x)), x in thousandths (any sign), result in 1/Q200
Sigmoid(xm) ==
    IF xm >= 0
       THEN (255 * Q200 * ExpScale) \div (ExpScale + ExpNeg(xm))
       ELSE Once(ExpNeg(-xm), LAMBDA e :
                (255 * Q200 * e) \div (ExpScale + e))

(***************************************************************************)
(* Typed arrays and ImageData.  mem is the store of typed arrays: a         *)
(* sequence whose element r is the byte sequence of the array with          *)
(* reference r.  An ImageData is [data |-> reference, width, height].       *)
(* JavaScript index i (from 0) is element i + 1 of the byte sequence.       *)
(***************************************************************************)
Byte == 0..255

\* new Uint8ClampedArray(typedArray): a fresh array holding a copy of the bytes
NewUint8ClampedArrayAlias(m, ref) == [mem |-> m, ref |-> ref]
NewUint8ClampedArrayZeroed(m, ref) ==
    [mem |-> Append(m, [k \in 1..Len(m[ref]) |-> 0]), ref |-> Len(m) + 1]
NewUint8ClampedArray(m, ref) == [mem |-> Append(m, m[ref]), ref |-> Len(m) + 1]

\* data[i] for a byte sequence
At(data, i) == data[i + 1]

(***************************************************************************)
(* applyBrightnessContrast (image-processor.js 54-109)                      *)
(* brightness, contrast are PUnit * value.                                  *)
(***************************************************************************)
useExtremeContrastFrom50(contrast) == contrast >= 50 * PUnit
useExtremeContrast(contrast) == contrast > 50 * PUnit

\* threshold = 128 - ((contrast - 50) * 2.36), in 1/Q1000
threshold(contrast) == 128 * Q1000 - (contrast - 50 * PUnit) * (2360 \div PUnit)

\* smoothing = Math.max(1, 100 - contrast), in 1/PUnit
smoothing(contrast) == Max(1 * PUnit, 100 * PUnit - contrast)

ExtremeValueFromThreshold(adjustedLum, contrast) ==
    IF contrast >= 95 * PUnit
       THEN IF adjustedLum >= threshold(contrast) THEN 255 * Q200 ELSE 0
       ELSE LET d  == adjustedLum - threshold(contrast)
                xm == (d * 10 * PUnit) \div smoothing(contrast)
            IN  Sigmoid(xm)
\* The extreme-regime value for an adjusted luminance given in 1/Q1000;
\* result in 1/Q200.  x = (adjustedLum - threshold) / (smoothing / 10).
ExtremeValue(adjustedLum, contrast) ==
    IF contrast >= 95 * PUnit
       THEN IF adjustedLum > threshold(contrast) THEN 255 * Q200 ELSE 0
       ELSE LET d  == adjustedLum - threshold(contrast)
                xm == (d * 10 * PUnit) \div smoothing(contrast)
            IN  Sigmoid(xm)

\* lum = 0.299 r + 0.587 g + 0.114 b, in 1/Q1000
Luminance(r, g, b) == 299 * r + 587 * g + 114 * b

\* contrastFactor in 1/Q200
contrastFactorLinear(contrast) ==
    (contrast + 100 * PUnit) * (Q200 \div (100 * PUnit))
contrastFactor(contrast) ==
    IF contrast <= 0
       THEN (contrast + 100 * PUnit) * (Q200 \div (100 * PUnit))
       ELSE Q200 + (contrast * 3 * Q200) \div (50 * PUnit)

\* ((value - 128) * contrastFactor) + 128 + brightness, in 1/Q200
NormalValue(value, brightness, contrast) ==
    (value - 128) * contrastFactor(contrast) + 128 * Q200
        + brightness * (Q200 \div PUnit)

BCBytePerChannel(data, i, brightness, contrast) ==
    IF i % 4 = 3 THEN At(data, i)
    ELSE IF useExtremeContrast(contrast)
    THEN ToUint8Clamped(
             ExtremeValue(At(data, i) * Q1000 + brightness * (Q1000 \div PUnit),
                          contrast),
             Q200)
    ELSE ToUint8Clamped(
             MathClamp255(NormalValue(At(data, i), brightness, contrast), Q200),
             Q200)
\* The byte the loops leave at index i of data
BCByte(data, i, brightness, contrast) ==
    LET channel == i % 4
        p == i - channel
    IN  IF channel = 3 THEN At(data, i)
        ELSE IF useExtremeContrast(contrast)
        THEN LET lum == Luminance(At(data, p), At(data, p + 1), At(data, p + 2))
                 adjustedLum == lum + brightness * (Q1000 \div PUnit)
             IN  ToUint8Clamped(ExtremeValue(adjustedLum, contrast), Q200)
        ELSE ToUint8Clamped(
                 MathClamp255(NormalValue(At(data, i), brightness, contrast), Q200),
                 Q200)

\* the contents of the array after the call (it is updated in place)
applyBrightnessContrast(data, brightness, contrast) ==
    Once(data, LAMBDA d :
        [k \in DOMAIN d |-> BCByte(d, k - 1, brightness, contrast)])

(***************************************************************************)
(* applyInversion (image-processor.js 116-124)                              *)
(***************************************************************************)
InvByteEveryChannel(data, i) == 255 - At(data, i)
InvByteFrom256(data, i) ==
    IF i % 4 = 3 THEN At(data, i) ELSE Min(255, 256 - At(data, i))
InvByte(data, i) == IF i % 4 = 3 THEN At(data, i) ELSE 255 - At(data, i)

\* the contents of the array after the call (it is updated in place)
applyInversion(data) ==
    Once(data, LAMBDA d : [k \in DOMAIN d |-> InvByte(d, k - 1)])

(***************************************************************************)
(* applyEdgeEnhancement (image-processor.js 133-177)                        *)
(* strength is EUnit * value; intensity = strength * 0.1.                   *)
(***************************************************************************)
kernel == << 0, -1, 0,
            -1,  4, -1,
             0, -1, 0 >>

\* sum over the 3x3 neighbourhood of (x, y) of src[...] * kernel[...]
KernelSum(src, width, x, y, channel) ==
    LET term(ky, kx) ==
            At(src, ((y + ky) * width + (x + kx)) * 4 + channel)
                * kernel[(ky + 1) * 3 + (kx + 1) + 1]
    IN  term(-1, -1) + term(-1, 0) + term(-1, 1)
      + term(0, -1)  + term(0, 0)  + term(0, 1)
      + term(1, -1)  + term(1, 0)  + term(1, 1)

EdgeByteZeroedBorder(src, width, height, i, strength) ==
    LET channel == i % 4
        pix == i \div 4
        x == IF width = 0 THEN 0 ELSE pix % width
        y == IF width = 0 THEN 0 ELSE pix \div width
    IN  IF channel < 3 /\ 1 <= x /\ x < width - 1 /\ 1 <= y /\ y < height - 1
        THEN LET sum == KernelSum(src, width, x, y, channel)
                 enhanced == At(src, i) * Q100 + sum * strength * (Q100 \div (10 * EUnit))
             IN  ToUint8Clamped(MathClamp255(enhanced, Q100), Q100)
        ELSE IF channel < 3 THEN 0 ELSE At(src, i)

EdgeByteFromEnhancedLeft(src, width, height, i, strength) ==
    LET channel == i % 4
        pix == i \div 4
        x == IF width = 0 THEN 0 ELSE pix % width
        y == IF width = 0 THEN 0 ELSE pix \div width
        enhancedAt(xx) ==
            ToUint8Clamped(
                MathClamp255(
                    At(src, (y * width + xx) * 4 + channel) * Q100
                        + KernelSum(src, width, xx, y, channel) * strength
                            * (Q100 \div (10 * EUnit)),
                    Q100),
                Q100)
    IN  IF channel < 3 /\ 1 <= x /\ x < width - 1 /\ 1 <= y /\ y < height - 1
        THEN LET left == IF x >= 2 THEN enhancedAt(x - 1) ELSE At(src, i - 4)
                 sum == KernelSum(src, width, x, y, channel)
                            + At(src, i - 4) - left
                 enhanced == At(src, i) * Q100 + sum * strength * (Q100 \div (10 * EUnit))
             IN  ToUint8Clamped(MathClamp255(enhanced, Q100), Q100)
        ELSE At(src, i)
\* The byte of dst at index i after the loops
EdgeByte(src, width, height, i, strength) ==
    LET channel == i % 4
        pix == i \div 4
        x == IF width = 0 THEN 0 ELSE pix % width
        y == IF width = 0 THEN 0 ELSE pix \div width
    IN  IF channel < 3 /\ 1 <= x /\ x < width - 1 /\ 1 <= y /\ y < height - 1
        THEN LET sum == KernelSum(src, width, x, y, channel)
                 \* src + sum * intensity, in 1/(Q100): intensity = strength/EUnit * 0.1
                 enhanced == At(src, i) * Q100 + sum * strength * (Q100 \div (10 * EUnit))
             IN  ToUint8Clamped(MathClamp255(enhanced, Q100), Q100)
        ELSE At(src, i)

applyEdgeEnhancement(m, imageData, strength) ==
    LET d   == NewUint8ClampedArray(m, imageData.data)
        dst == Once(m[imageData.data], LAMBDA src :
                   [k \in DOMAIN src |->
                       EdgeByte(src, imageData.width, imageData.height, k - 1, strength)])
    IN  [mem |-> [d.mem EXCEPT ![d.ref] = dst],
         ret |-> [data |-> d.ref, width |-> imageData.width, height |-> imageData.height]]

(***************************************************************************)
(* process (image-processor.js 21-44)                                       *)
(* params = [brightness, contrast, edgeEnhancement, invert]                 *)
(***************************************************************************)
processInversionFirst(m, imageData, params) ==
    Once(params, LAMBDA p :
    Once(NewUint8ClampedArray(m, imageData.data), LAMBDA c :
        LET processedData == [data |-> c.ref, width |-> imageData.width,
                              height |-> imageData.height]
            brightnessContrast(d) ==
                IF p.brightness # 0 \/ p.contrast # 0
                   THEN applyBrightnessContrast(d, p.brightness, p.contrast)
                   ELSE d
            inversion(d) == IF p.invert THEN applyInversion(d) ELSE d
            edgeEnhancement(d) ==
                LET m2 == [c.mem EXCEPT ![c.ref] = d]
                IN  IF p.edgeEnhancement > 0
                       THEN applyEdgeEnhancement(m2, processedData, p.edgeEnhancement)
                       ELSE [mem |-> m2, ret |-> processedData]
        IN  Once(Once(Once(c.mem[c.ref], inversion), brightnessContrast),
                 edgeEnhancement)))
process(m, imageData, params) ==
    Once(params, LAMBDA p :
    Once(NewUint8ClampedArray(m, imageData.data), LAMBDA c :
        LET processedData == [data |-> c.ref, width |-> imageData.width,
                              height |-> imageData.height]
            \* each stage takes the contents of processedData.data before it
            brightnessContrast(d) ==
                IF p.brightness # 0 \/ p.contrast # 0
                   THEN applyBrightnessContrast(d, p.brightness, p.contrast)
                   ELSE d
            inversion(d) == IF p.invert THEN applyInversion(d) ELSE d
            edgeEnhancement(d) ==
                LET m2 == [c.mem EXCEPT ![c.ref] = d]
                IN  IF p.edgeEnhancement > 0
                       THEN applyEdgeEnhancement(m2, processedData, p.edgeEnhancement)
                       ELSE [mem |-> m2, ret |-> processedData]
        IN  Once(Once(Once(c.mem[c.ref], brightnessContrast), inversion),
                 edgeEnhancement)))

(***************************************************************************)
(* calculateHistogram (image-processor.js 184-209)                          *)
(* The luminance 0.299 r + 0.587 g + 0.114 b is a double: where the exact   *)
(* sum ends in .5 the double lies at or just under the tie and Math.round   *)
(* goes up or down (0,36,12 gives 22; 36,0,89 gives 21); tie is the amount  *)
(* (0 or 1) added to the floor at such a tie.                               *)
(***************************************************************************)
Zeros256 == [k \in 1..256 |-> 0]

LuminanceBucketFloor(lum, tie) == lum \div Q1000
\* Math.round of a luminance given in 1/Q1000
LuminanceBucket(lum, tie) ==
    IF 2 * (lum % Q1000) = Q1000 THEN lum \div Q1000 + tie
    ELSE (2 * lum + Q1000) \div (2 * Q1000)

\* the histogram object after the loop has run from index i to the end
RECURSIVE HistogramLoop(_, _, _, _)
HistogramLoop(data, i, histogram, tie) ==
    IF i >= Len(data) THEN histogram
    ELSE LET r == At(data, i)
             g == At(data, i + 1)
             b == At(data, i + 2)
             luminance == LuminanceBucket(Luminance(r, g, b), tie)
         IN  HistogramLoop(data, i + 4,
                 [red       |-> [histogram.red EXCEPT ![r + 1] = @ + 1],
                  green     |-> [histogram.green EXCEPT ![g + 1] = @ + 1],
                  blue      |-> [histogram.blue EXCEPT ![b + 1] = @ + 1],
                  luminance |-> [histogram.luminance EXCEPT ![luminance + 1] = @ + 1]],
                 tie)

calculateHistogram(data, tie) ==
    HistogramLoop(data, 0,
        [red |-> Zeros256, green |-> Zeros256, blue |-> Zeros256,
         luminance |-> Zeros256],
        tie)

(***************************************************************************)
(* The transfer curve of drawHistogram (viewer.js 462-503): the output for  *)
(* one input level, in 1/Q200.  The viewer carries its own copy of the      *)
(* formulas; it is translated here from that copy.                          *)
(***************************************************************************)
CurveOutput(input, brightness, contrast, isInverted) ==
    LET thresholdC    == 128 * Q1000 - (contrast - 50 * PUnit) * (2360 \div PUnit)
        smoothingC    == Max(1 * PUnit, 100 * PUnit - contrast)
        adjustedValue == input * Q1000 + brightness * (Q1000 \div PUnit)
        sigmoidInput  == ((adjustedValue - thresholdC) * 10 * PUnit) \div smoothingC
        factorC       == IF contrast <= 0
                            THEN (contrast + 100 * PUnit) * (Q200 \div (100 * PUnit))
                            ELSE Q200 + (contrast * 3 * Q200) \div (50 * PUnit)
        raw == IF contrast > 50 * PUnit
                  THEN IF contrast >= 95 * PUnit
                          THEN IF adjustedValue > thresholdC THEN 255 * Q200 ELSE 0
                          ELSE Sigmoid(sigmoidInput)
                  ELSE (input - 128) * factorC + 128 * Q200
                           + brightness * (Q200 \div PUnit)
        output == MathClamp255(raw, Q200)
    IN  IF isInverted THEN 255 * Q200 - output ELSE output

\* the 256 samples the loop of drawHistogram draws
curve(brightness, contrast, isInverted) ==
    [k \in 1..256 |-> CurveOutput(k - 1, brightness, contrast, isInverted)]

\* the curve drawHistogram draws for the viewer object v (viewer.js 458-504)
drawTransferCurveSharpened(v) ==
    curve(v.brightness, v.contrast + v.edgeEnhancement, v.isInverted)
drawTransferCurve(v) == curve(v.brightness, v.contrast, v.isInverted)

(***************************************************************************)
(* Inputs of the image processor                                            *)
(***************************************************************************)
MaxWidth  == 3
MaxHeight == 3

Palette == << <<10, 20, 30, 255>>, <<255, 255, 255, 255>>,
              <<200, 50, 120, 128>>, <<0, 0, 0, 0>> >>

\* the bytes of a width x height image whose pixel (x, y) has the colour
\* Palette[(p*x + q*y + r) mod 4]
PatternBytes(width, height, p, q, r) ==
    [k \in 1..(4 * width * height) |->
        LET i   == k - 1
            pix == i \div 4
            x   == pix % width
            y   == pix \div width
        IN  Palette[((p * x + q * y + r) % 4) + 1][(i % 4) + 1]]

PatternImages ==
    { [bytes |-> PatternBytes(w, h, pq[1], pq[2], r), width |-> w, height |-> h] :
        w \in {1, MaxWidth}, h \in {1, MaxHeight},
        pq \in {<<0, 0>>, <<1, 0>>, <<1, 2>>}, r \in {0, 1} }

\* images two pixels wide or high (no interior pixel) and one with two
\* interior pixels side by side
OtherSizes == { <<2, MaxHeight>>, <<MaxWidth, 2>>, <<MaxWidth + 1, MaxHeight>> }
OtherImages ==
    { [bytes |-> PatternBytes(wh[1], wh[2], 1, 2, 0), width |-> wh[1],
       height |-> wh[2]] : wh \in OtherSizes }

\* the 256 x 1 image whose pixel g is the flat gray (g, g, g, 255)
GrayRamp ==
    [bytes |-> [k \in 1..1024 |-> IF (k - 1) % 4 = 3 THEN 255 ELSE (k - 1) \div 4],
     width |-> 256, height |-> 1]

Params(b, c, e, inv) ==
    [brightness |-> b, contrast |-> c, edgeEnhancement |-> e, invert |-> inv]

DefaultParams == Params(0, 0, 0, FALSE)

\* brightness and contrast in 1/PUnit, edge enhancement in 1/EUnit
BrightnessSamples == {-200, -41, 0, 40}
ContrastSamples   == {-100, 0, 50, 100, 101, 150, 190, 200}
EdgeSamples       == {0, 5, 100}

ParamSamples ==
    { Params(b, c, e, inv) : b \in BrightnessSamples, c \in ContrastSamples,
                             e \in EdgeSamples, inv \in BOOLEAN }

\* a denser grid for the gray ramp
RampBrightness == {-200, -41, -1, 0, 1, 40, 111, 200}
RampContrast   == {-200, -100, -1, 0, 1, 50, 99, 100, 101, 102, 150, 189,
                   190, 191, 200}
RampParams ==
    { Params(b, c, 0, inv) : b \in RampBrightness, c \in RampContrast,
                             inv \in BOOLEAN }

ProcessorInputs ==
    { <<img, pr>> : img \in PatternImages \cup OtherImages, pr \in ParamSamples }
        \cup { <<GrayRamp, pr>> : pr \in RampParams }

NoImageData == [data |-> 0, width |-> 0, height |-> 0]

\* Inputs of calculateHistogram: images of every size from 0 x 0 to
\* MaxWidth x MaxHeight over the palette extended by two colours whose
\* luminance ends in .5
HistogramPalette == Palette \o << <<0, 36, 12, 255>>, <<36, 0, 89, 255>> >>

HistogramBytes(width, height, p, q, r) ==
    [k \in 1..(4 * width * height) |->
        LET i   == k - 1
            pix == i \div 4
            x   == pix % width
            y   == pix \div width
        IN  HistogramPalette[((p * x + q * y + r) % 6) + 1][(i % 4) + 1]]

HistogramInputs ==
    { [bytes |-> HistogramBytes(w, h, pq[1], pq[2], r), width |-> w, height |-> h] :
        w \in 0..MaxWidth, h \in 0..MaxHeight,
        pq \in {<<0, 0>>, <<1, 0>>, <<1, 2>>}, r \in 0..5 }

NoHistogram == [red |-> << >>, green |-> << >>, blue |-> << >>, luminance |-> << >>]

(***************************************************************************)
(* State                                                                    *)
(***************************************************************************)
VARIABLES
    mem,            \* the typed arrays (processor runs)
    imageData,      \* the ImageData passed to process
    params,         \* the params passed to process / read by the curve
    ret,            \* the ImageData process returned, or NoImageData
    transferCurve,  \* the 256 curve samples drawn, or << >>
    before,         \* the bytes of imageData when process was called
    again,          \* the ImageData process returned when called on ret, or NoImageData
    histogram,      \* the object calculateHistogram returned, or NoHistogram
    viewer,         \* the RadiographViewer object and its timers
    fresh,          \* history: the last recompute drew the canvas from what the viewer holds now
    canvas,         \* the bitmap of the viewer's canvas
    setSinceLoad,   \* the parameters written by a setter since the last load
    moves           \* drag gestures made so far (bounded by MaxMoves)

procVars == <<mem, imageData, params, ret, transferCurve, before, again,
              histogram>>
viewVars == <<viewer, setSinceLoad, moves, fresh, canvas>>

vars == <<mem, imageData, params, ret, transferCurve, before, again, histogram,
          viewer, setSinceLoad, moves, fresh, canvas>>

(***************************************************************************)
(* RadiographViewer (viewer.js)                                             *)
(***************************************************************************)
\* the images that can be loaded; their pixels as getImageData returns them
\* after drawImage on the opaque (alpha: false) canvas
PictureBytes(width, height, seed) ==
    [k \in 1..(4 * width * height) |->
        LET i == k - 1
        IN  IF i % 4 = 3 THEN 255
            ELSE ((i \div 4) * 37 + (i % 4) * 59 + seed * 101) % 256]

Pictures == << [bytes |-> PictureBytes(3, 3, 1), width |-> 3, height |-> 3],
               [bytes |-> PictureBytes(11, 1, 2), width |-> 11, height |-> 1] >>

\* clientWidth x clientHeight of the element that holds the canvas, in
\* pixels: the size at start (every picture fits) and after a resize
ContainerAtStart == [width |-> 12, height |-> 12]
ContainerSizes == { ContainerAtStart, [width |-> 2, height |-> 3],
                    [width |-> 1, height |-> 1] }

\* Zoom levels are fractions <<numerator, denominator>> in lowest terms.
RECURSIVE Gcd(_, _)
Gcd(a, b) == IF b = 0 THEN a ELSE Gcd(b, a % b)
Frac(n, d) == LET g == Gcd(n, d) IN <<n \div g, d \div g>>
\* products and sums cancel common factors first, to keep the integers small
FracTimes(a, b) ==
    LET g1 == Gcd(Abs(a[1]), b[2])
        g2 == Gcd(Abs(b[1]), a[2])
    IN  Frac((a[1] \div g1) * (b[1] \div g2), (a[2] \div g2) * (b[2] \div g1))
FracPlus(a, b) ==
    LET g == Gcd(a[2], b[2])
    IN  Frac(a[1] * (b[2] \div g) + b[1] * (a[2] \div g), (a[2] \div g) * b[2])
FracMinus(a, b) == FracPlus(a, <<-b[1], b[2]>>)
\* a / b for b > 0
FracDiv(a, b) == FracTimes(a, <<b[2], b[1]>>)
FracLess(a, b) == a[1] * b[2] < b[1] * a[2]
FracMin(a, b) == IF FracLess(a, b) THEN a ELSE b
FracMax(a, b) == IF FracLess(a, b) THEN b ELSE a

\* CONFIG (controls.js 11-21)
MIN_ZOOM == <<1, 10>>
MAX_ZOOM == <<10, 1>>
ZOOM_WHEEL_FACTOR  == <<11, 10>>
ZOOM_BUTTON_FACTOR == <<6, 5>>
Inverse(f) == <<f[2], f[1]>>

\* canvas.width = w resets the bitmap: opaque black on an alpha: false context
BlankCanvas(width, height) ==
    [bytes |-> [k \in 1..(4 * width * height) |-> IF (k - 1) % 4 = 3 THEN 255 ELSE 0],
     width |-> width, height |-> height]

\* #histogramCanvas: nothing drawn, or what drawHistogram drew last: the
\* bars are the luminance histogram of the bytes in source, the curve is
\* drawn from brightness, contrast and invert of params; image and params
\* are the image and the four parameters the viewer held at that moment
NoDrawing == [source |-> << >>, image |-> 0, params |-> DefaultParams]

\* constructor (viewer.js 18-57); originalImage = 0 stands for null
NewViewer ==
    [originalImage    |-> 0,
     brightness       |-> 0,
     contrast         |-> 0,
     edgeEnhancement  |-> 0,
     isInverted       |-> FALSE,
     isProcessing     |-> FALSE,
     processingQueued |-> FALSE,
     timeout          |-> FALSE,    \* the debounce timer of processImageDebounced is set
     frames           |-> 0,        \* animation-frame callbacks requested and not yet run
     zoom             |-> <<1, 1>>,
     panX             |-> <<0, 1>>,   \* in pixels, a fraction like zoom
     panY             |-> <<0, 1>>,
     container        |-> ContainerAtStart,   \* canvas.parentElement
     arrived          |-> 0,        \* history: processImage calls since the recompute in flight began
     zooms            |-> 0,        \* history: zoom gestures made so far (bounded by MaxZooms)
     histogramPanel   |-> "none",   \* style.display of #histogramPanel
     histogramCanvas  |-> NoDrawing,
     invertActive     |-> FALSE,    \* #invertBtn has the class 'active'
     originalState    |-> << >>,    \* << >> stands for null, << s >> for the object s
     loading          |-> << >>,    \* the images of the loads started and not yet finished, in the order started
     lastStarted      |-> 0,        \* history: the image of the load started last
     imageName        |-> 0,        \* #imageName: the name of this image is shown (0: none)
     canvas           |-> BlankCanvas(1, 1)]

\* The model holds the object in two variables, viewer (every field but the
\* canvas) and canvas; the operators below work on the whole object.
WithCanvas(v, cv) ==
    [originalImage    |-> v.originalImage,
     brightness       |-> v.brightness,
     contrast         |-> v.contrast,
     edgeEnhancement  |-> v.edgeEnhancement,
     isInverted       |-> v.isInverted,
     isProcessing     |-> v.isProcessing,
     processingQueued |-> v.processingQueued,
     timeout          |-> v.timeout,
     frames           |-> v.frames,
     zoom             |-> v.zoom,
     panX             |-> v.panX,
     panY             |-> v.panY,
     container        |-> v.container,
     arrived          |-> v.arrived,
     zooms            |-> v.zooms,
     histogramPanel   |-> v.histogramPanel,
     histogramCanvas  |-> v.histogramCanvas,
     invertActive     |-> v.invertActive,
     originalState    |-> v.originalState,
     loading          |-> v.loading,
     lastStarted      |-> v.lastStarted,
     imageName        |-> v.imageName,
     canvas           |-> cv]

WithoutCanvas(v) ==
    [originalImage    |-> v.originalImage,
     brightness       |-> v.brightness,
     contrast         |-> v.contrast,
     edgeEnhancement  |-> v.edgeEnhancement,
     isInverted       |-> v.isInverted,
     isProcessing     |-> v.isProcessing,
     processingQueued |-> v.processingQueued,
     timeout          |-> v.timeout,
     frames           |-> v.frames,
     zoom             |-> v.zoom,
     panX             |-> v.panX,
     panY             |-> v.panY,
     container        |-> v.container,
     arrived          |-> v.arrived,
     zooms            |-> v.zooms,
     histogramPanel   |-> v.histogramPanel,
     histogramCanvas  |-> v.histogramCanvas,
     invertActive     |-> v.invertActive,
     originalState    |-> v.originalState,
     loading          |-> v.loading,
     lastStarted      |-> v.lastStarted,
     imageName        |-> v.imageName]

hasImage(v) == v.originalImage # 0

\* the history field arrived counts up to MaxArrived
MaxArrived == 2

\* processImage (viewer.js 309-321): the synchronous part
processImageUnguarded(v) ==
    IF v.originalImage = 0 THEN v
    ELSE [v EXCEPT !.isProcessing = TRUE, !.frames = @ + 1]
processImageDropping(v) ==
    IF v.originalImage = 0 THEN v
    ELSE IF v.isProcessing THEN [v EXCEPT !.arrived = Min(@ + 1, MaxArrived)]
    ELSE [v EXCEPT !.isProcessing = TRUE, !.frames = @ + 1]
processImage(v) ==
    IF v.originalImage = 0 THEN v
    ELSE IF v.isProcessing
         THEN [v EXCEPT !.processingQueued = TRUE,
                        !.arrived = Min(@ + 1, MaxArrived)]
    ELSE [v EXCEPT !.isProcessing = TRUE, !.frames = @ + 1]

\* processImageDebounced (viewer.js 51-53, 63-73): (re)arms the 16 ms timer
processImageDebouncedDropped(v) == v
processImageDebouncedLeading(v) == processImage([v EXCEPT !.timeout = TRUE])
processImageDebounced(v) == [v EXCEPT !.timeout = TRUE]

\* setBrightness / setContrast / setEdgeEnhancement (viewer.js 363-384)
setBrightness(v, value) ==
    processImageDebounced(
        [v EXCEPT !.brightness = Max(-100 * PUnit, Min(100 * PUnit, value))])

setContrastUnclamped(v, value) ==
    processImageDebounced([v EXCEPT !.contrast = value])
setContrast(v, value) ==
    processImageDebounced(
        [v EXCEPT !.contrast = Max(-100 * PUnit, Min(100 * PUnit, value))])

setEdgeEnhancement(v, value) ==
    processImageDebounced(
        [v EXCEPT !.edgeEnhancement = Max(0, Min(10 * EUnit, value))])

\* toggleInvert (viewer.js 389-398)
toggleInvert(v) ==
    IF v.originalImage = 0 THEN v
    ELSE processImage([v EXCEPT !.isInverted = ~v.isInverted])

\* resetView (viewer.js 271-303): sizing the canvas clears it; the zoom is
\* set to fit the container and the pan to 0 (the CSS transform is a
\* function of zoom, panX and panY and is not held apart)
resetView(v) ==
    IF v.originalImage = 0 THEN v
    ELSE LET img == Pictures[v.originalImage]
             scaleX == Frac(v.container.width, img.width)
             scaleY == Frac(v.container.height, img.height)
             fit == IF img.width > v.container.width
                       \/ img.height > v.container.height
                       THEN FracMin(scaleX, scaleY)
                       ELSE <<1, 1>>
         IN  processImage([v EXCEPT !.canvas = BlankCanvas(img.width, img.height),
                                    !.zoom = fit,
                                    !.panX = <<0, 1>>,
                                    !.panY = <<0, 1>>])

\* zoomAtPoint (viewer.js 547-559)
zoomAtPointPanAlways(v, pointX, pointY, zoomFactor) ==
    LET newZoom == FracTimes(v.zoom, zoomFactor)
        zoomOriginX == FracDiv(FracMinus(pointX, v.panX), v.zoom)
        zoomOriginY == FracDiv(FracMinus(pointY, v.panY), v.zoom)
    IN  IF FracLess(newZoom, MIN_ZOOM) \/ FracLess(MAX_ZOOM, newZoom)
           THEN [v EXCEPT !.panX = FracMinus(pointX, FracTimes(zoomOriginX, newZoom)),
                          !.panY = FracMinus(pointY, FracTimes(zoomOriginY, newZoom))]
        ELSE [v EXCEPT !.zoom = newZoom,
                       !.panX = FracMinus(pointX, FracTimes(zoomOriginX, newZoom)),
                       !.panY = FracMinus(pointY, FracTimes(zoomOriginY, newZoom))]
zoomAtPoint(v, pointX, pointY, zoomFactor) ==
    LET newZoom == FracTimes(v.zoom, zoomFactor)
        zoomOriginX == FracDiv(FracMinus(pointX, v.panX), v.zoom)
        zoomOriginY == FracDiv(FracMinus(pointY, v.panY), v.zoom)
    IN  IF FracLess(newZoom, MIN_ZOOM) \/ FracLess(MAX_ZOOM, newZoom) THEN v
        ELSE [v EXCEPT !.zoom = newZoom,
                       !.panX = FracMinus(pointX, FracTimes(zoomOriginX, newZoom)),
                       !.panY = FracMinus(pointY, FracTimes(zoomOriginY, newZoom))]

\* canvas.getBoundingClientRect(): the canvas element under its transform
\* scale(zoom); rect.width / 2 and rect.height / 2
rectHalfWidth(v) == FracTimes(<<v.canvas.width, 2>>, v.zoom)
rectHalfHeight(v) == FracTimes(<<v.canvas.height, 2>>, v.zoom)

\* setZoom (viewer.js 654-658)
setZoom(v, zoomLevel) ==
    [v EXCEPT !.zoom = FracMax(MIN_ZOOM, FracMin(MAX_ZOOM, zoomLevel))]

\* drawHistogram (viewer.js 413-528); getHistogramData (404-408) reads the
\* pixels of the main canvas
drawHistogram(v) ==
    IF ~hasImage(v) THEN v
    ELSE IF Len(v.canvas.bytes) = 0
         THEN [v EXCEPT !.histogramCanvas = NoDrawing]
    ELSE [v EXCEPT !.histogramCanvas =
             [source |-> v.canvas.bytes,
              image  |-> v.originalImage,
              params |-> Params(v.brightness, v.contrast, v.edgeEnhancement,
                                v.isInverted)]]

\* updateHistogram (viewer.js 534-539)
updateHistogram(v) ==
    IF v.histogramPanel # "none" THEN drawHistogram(v) ELSE v

\* updateUIControls (viewer.js 224-240): the sliders and their labels are not
\* part of the model; the invert button is
updateUIControls(v) == [v EXCEPT !.invertActive = v.isInverted]

\* resetAdjustments (viewer.js 245-258)
resetAdjustmentsKeepEdge(v) ==
    processImage(
        updateUIControls(
            [v EXCEPT !.brightness = 0, !.contrast = 0, !.isInverted = FALSE]))
resetAdjustments(v) ==
    processImage(
        updateUIControls(
            [v EXCEPT !.brightness = 0, !.contrast = 0,
                      !.edgeEnhancement = 0, !.isInverted = FALSE]))

\* resetAll (viewer.js 263-266)
resetAll(v) == resetAdjustments(resetView(v))

\* saveOriginalState (viewer.js 613-620)
saveOriginalStateSkipped(v) == v
saveOriginalState(v) ==
    [v EXCEPT !.originalState =
        << [brightness |-> 0, contrast |-> 0, edgeEnhancement |-> 0,
            isInverted |-> FALSE] >>]

\* hasUnsavedChanges (viewer.js 626-632)
hasUnsavedChanges(v) ==
    IF v.originalState = << >> THEN FALSE
    ELSE \/ v.brightness # v.originalState[1].brightness
         \/ v.contrast # v.originalState[1].contrast
         \/ v.edgeEnhancement # v.originalState[1].edgeEnhancement
         \/ v.isInverted # v.originalState[1].isInverted

\* setImage (viewer.js 194-218)
setImageKeepContrast(v, img) ==
    updateHistogram(
        saveOriginalState(
            resetView(
                updateUIControls(
                    [v EXCEPT !.originalImage = img, !.brightness = 0,
                              !.edgeEnhancement = 0, !.isInverted = FALSE]))))
setImage(v, img) ==
    updateHistogram(
        saveOriginalState(
            resetView(
                updateUIControls(
                    [v EXCEPT !.originalImage = img, !.brightness = 0, !.contrast = 0,
                              !.edgeEnhancement = 0, !.isInverted = FALSE]))))

\* updateInfo (viewer.js 604-607): the name shown is that of image img
updateInfo(v, img) == [v EXCEPT !.imageName = img]

\* loadImage / loadImageFromUrl (viewer.js 118-153, 160-187) up to the
\* assignment of img.src: the load of image img is under way
loadStarted(v, img) ==
    [v EXCEPT !.loading = Append(@, img), !.lastStarted = img]

\* img.onload of the load of image img (viewer.js 132-138, 172-179)
onload(v, img) == updateInfo(setImage(v, img), img)

\* the sequence s without its element k
Without(s, k) == SubSeq(s, 1, k - 1) \o SubSeq(s, k + 1, Len(s))

\* process on a buffer that is not shared: the bytes of the returned ImageData
ProcessedBytes(bytes, width, height, pr) ==
    Once(process(<< bytes >>, [data |-> 1, width |-> width, height |-> height], pr),
         LAMBDA r : r.mem[r.ret.data])

CurrentParams(v) ==
    Params(v.brightness, v.contrast, v.edgeEnhancement, v.isInverted)

\* ctx.clearRect + ctx.drawImage(this.originalImage, 0, 0) (viewer.js 324-325)
drawImageSkipped(v) == v
drawImage(v) ==
    LET img == Pictures[v.originalImage]
    IN  [v EXCEPT !.canvas = [bytes |-> img.bytes, width |-> img.width,
                              height |-> img.height]]

hasAdjustments(v) ==
    v.brightness # 0 \/ v.contrast # 0 \/ v.edgeEnhancement # 0 \/ v.isInverted

\* the finally block of the callback (viewer.js 345-353)
frameFinally(v) ==
    Once([v EXCEPT !.isProcessing = FALSE, !.arrived = 0], LAMBDA v3 :
        IF v3.processingQueued
           THEN processImage([v3 EXCEPT !.processingQueued = FALSE])
           ELSE v3)

\* the animation-frame callback of processImage (viewer.js 321-356)
frameCallback(v) ==
    Once(drawImage([v EXCEPT !.frames = @ - 1]), LAMBDA v1 :
        LET v2 == IF hasAdjustments(v1)
                     THEN [v1 EXCEPT !.canvas.bytes =
                              ProcessedBytes(v1.canvas.bytes, v1.canvas.width,
                                             v1.canvas.height, CurrentParams(v1))]
                     ELSE v1
        IN  frameFinally(updateHistogram(v2)))

\* the try block left by an exception: the finally block runs all the same
finallySkippedOnThrow(v) == v
finallyOnThrow(v) == frameFinally(v)

\* the statements of the try block that can throw: drawImage (after
\* clearRect has cleared the canvas) and getImageData / process / putImageData
\* (after the original image has been drawn)
ThrowPoints == {"drawImage", "process"}

\* the callback when the statement at throws
frameCallbackThrowing(v, at) ==
    Once([v EXCEPT !.frames = @ - 1], LAMBDA v0 :
        IF at = "drawImage"
           THEN finallyOnThrow(
                    [v0 EXCEPT !.canvas = BlankCanvas(v0.canvas.width, v0.canvas.height)])
           ELSE finallyOnThrow(drawImage(v0)))

(***************************************************************************)
(* Inputs of the viewer                                                     *)
(***************************************************************************)
MaxMoves == 1

\* slider positions (the sliders give integers for brightness and contrast)
SliderBrightness == {20}
SliderContrast   == {60}
SliderEdge       == {25}         \* 2.5, in 1/EUnit
\* zoom gestures are counted up to MaxZooms
MaxZooms == 2
\* the mouse position of a wheel event and the midpoint of a pinch,
\* relative to the canvas rectangle, in pixels
ZoomPoints == { <<0, 0>>, <<2, 1>> }
\* currentDistance / initialPinchDistance of a pinch (controls.js 335)
PinchFactors == { <<4, 1>>, <<1, 4>> }
\* mouse movement in pixels between two mousemove events
MouseDeltas == { <<1, 0>> }
\* movement of the midpoint of two touches, in half pixels
TouchDeltas == { <<0, -450>> }

\* a viewer that holds the parameters pr and shows img on its canvas
ViewerHolding(pr, img) ==
    [NewViewer EXCEPT !.originalImage = 1,
                      !.brightness = pr.brightness,
                      !.contrast = pr.contrast,
                      !.edgeEnhancement = pr.edgeEnhancement,
                      !.isInverted = pr.invert,
                      !.canvas = img]

(***************************************************************************)
(* The image processor run on one input                                     *)
(***************************************************************************)
ProcInit ==
    \E in \in ProcessorInputs :
        /\ mem = << in[1].bytes >>
        /\ imageData = [data |-> 1, width |-> in[1].width, height |-> in[1].height]
        /\ params = in[2]
        /\ ret = NoImageData
        /\ transferCurve = << >>
        /\ before = in[1].bytes
        /\ again = NoImageData
        /\ histogram = NoHistogram
        /\ viewer = WithoutCanvas(NewViewer)
        /\ canvas = NewViewer.canvas
        /\ fresh = FALSE
        /\ setSinceLoad = {}
        /\ moves = 0

\* imageProcessor.process(imageData, params)
Process ==
    /\ ret = NoImageData
    /\ LET r == process(mem, imageData, params)
       IN  /\ mem' = r.mem
           /\ ret' = r.ret
    /\ UNCHANGED <<imageData, params, transferCurve, before, again, histogram>>
    /\ UNCHANGED viewVars

\* the curve loop of drawHistogram in a viewer that holds params and shows
\* the image
DrawCurve ==
    /\ transferCurve = << >>
    /\ transferCurve' =
           drawTransferCurve(
               ViewerHolding(params, [bytes |-> before, width |-> imageData.width,
                                      height |-> imageData.height]))
    /\ UNCHANGED <<mem, imageData, params, ret, before, again, histogram>>
    /\ UNCHANGED viewVars

\* imageProcessor.process(processed, params): the returned ImageData is
\* passed to process once more with the same params
ProcessAgain ==
    /\ ret # NoImageData
    /\ again = NoImageData
    /\ LET r == process(mem, ret, params)
       IN  /\ mem' = r.mem
           /\ again' = r.ret
    /\ UNCHANGED <<imageData, params, ret, transferCurve, before, histogram>>
    /\ UNCHANGED viewVars

ProcNext == Process \/ DrawCurve \/ ProcessAgain

SpecProcessor == ProcInit /\ [][ProcNext]_vars

(***************************************************************************)
(* The transfer curve drawn in one viewer: every brightness, contrast and   *)
(* invert of the dense grid with every edge enhancement sample, on two      *)
(* images                                                                   *)
(***************************************************************************)
CurveInputs ==
    { <<img, Params(pr.brightness, pr.contrast, e, pr.invert)>> :
        img \in { [bytes |-> PatternBytes(1, 1, 0, 0, 0), width |-> 1, height |-> 1],
                  [bytes |-> PatternBytes(MaxWidth, MaxHeight, 1, 2, 0),
                   width |-> MaxWidth, height |-> MaxHeight] },
        pr \in RampParams, e \in EdgeSamples }

CurveInit ==
    \E in \in CurveInputs :
        /\ mem = << in[1].bytes >>
        /\ imageData = [data |-> 1, width |-> in[1].width, height |-> in[1].height]
        /\ params = in[2]
        /\ ret = NoImageData
        /\ transferCurve = << >>
        /\ before = in[1].bytes
        /\ again = NoImageData
        /\ histogram = NoHistogram
        /\ viewer = WithoutCanvas(NewViewer)
        /\ canvas = NewViewer.canvas
        /\ fresh = FALSE
        /\ setSinceLoad = {}
        /\ moves = 0

CurveNext == DrawCurve

SpecCurve == CurveInit /\ [][CurveNext]_vars

(***************************************************************************)
(* calculateHistogram run on one input                                      *)
(***************************************************************************)
HistInit ==
    \E in \in HistogramInputs :
        /\ mem = << in.bytes >>
        /\ imageData = [data |-> 1, width |-> in.width, height |-> in.height]
        /\ params = DefaultParams
        /\ ret = NoImageData
        /\ transferCurve = << >>
        /\ before = in.bytes
        /\ again = NoImageData
        /\ histogram = NoHistogram
        /\ viewer = WithoutCanvas(NewViewer)
        /\ canvas = NewViewer.canvas
        /\ fresh = FALSE
        /\ setSinceLoad = {}
        /\ moves = 0

\* imageProcessor.calculateHistogram(imageData)
CalculateHistogram ==
    /\ histogram = NoHistogram
    /\ \E tie \in {0, 1} :
          histogram' = calculateHistogram(mem[imageData.data], tie)
    /\ UNCHANGED <<mem, imageData, params, ret, transferCurve, before, again>>
    /\ UNCHANGED viewVars

HistNext == CalculateHistogram

SpecHistogram == HistInit /\ [][HistNext]_vars

(***************************************************************************)
(* The viewer and its event handlers                                        *)
(***************************************************************************)
BRIGHTNESS_SENSITIVITY == 1     \* 0.5, in 1/PUnit per pixel
CONTRAST_SENSITIVITY   == 1     \* 0.5, in 1/PUnit per pixel

\* the viewer object as the handlers see it
this == WithCanvas(viewer, canvas)

\* the handler leaves the object as v
Becomes(v) ==
    \E w \in {v} :
        /\ viewer' = WithoutCanvas(w)
        /\ canvas' = w.canvas

\* what a recompute draws the canvas from
Shown(v) == << v.originalImage, v.brightness, v.contrast, v.edgeEnhancement,
               v.isInverted >>

\* an event handler leaves the object as v: the canvas stops being fresh when
\* the handler changes it or what it was drawn from
Handler(v) ==
    /\ Becomes(v)
    /\ fresh' = (fresh /\ Shown(viewer') = Shown(viewer) /\ canvas' = canvas)

Init ==
    /\ viewer = WithoutCanvas(NewViewer)
    /\ canvas = NewViewer.canvas
    /\ fresh = FALSE
    /\ setSinceLoad = {}
    /\ moves = 0
    /\ mem = << >>
    /\ imageData = NoImageData
    /\ params = DefaultParams
    /\ ret = NoImageData
    /\ transferCurve = << >>
    /\ before = << >>
    /\ again = NoImageData
    /\ histogram = NoHistogram

\* 'input' on the brightness slider (controls.js 67-72)
BrightnessSliderInput ==
    \E value \in SliderBrightness :
        /\ Handler(setBrightness(this, value * PUnit))
        /\ setSinceLoad' = setSinceLoad \cup {"brightness"}
        /\ UNCHANGED moves
        /\ UNCHANGED procVars

\* 'input' on the contrast slider (controls.js 76-81)
ContrastSliderInput ==
    \E value \in SliderContrast :
        /\ Handler(setContrast(this, value * PUnit))
        /\ setSinceLoad' = setSinceLoad \cup {"contrast"}
        /\ UNCHANGED moves
        /\ UNCHANGED procVars

\* 'input' on the edge enhancement slider (controls.js 85-90)
EdgeSliderInput ==
    \E value \in SliderEdge :
        /\ Handler(setEdgeEnhancement(this, value))
        /\ setSinceLoad' = setSinceLoad \cup {"edgeEnhancement"}
        /\ UNCHANGED moves
        /\ UNCHANGED procVars

\* MouseHandler.onMouseMove while dragging with the middle button,
\* case 'adjust' (controls.js 219-237)
MouseAdjust ==
    \E d \in MouseDeltas :
        /\ moves < MaxMoves
        /\ moves' = moves + 1
        /\ LET newBrightness == viewer.brightness + d[1] * BRIGHTNESS_SENSITIVITY
               newContrast   == viewer.contrast - d[2] * CONTRAST_SENSITIVITY
           IN  Handler(setContrast(setBrightness(this, newBrightness), newContrast))
        /\ setSinceLoad' = setSinceLoad \cup {"brightness", "contrast"}
        /\ UNCHANGED procVars

\* TouchHandler.onTouchMove with two touches whose midpoint moved by more
\* than 2 pixels and further than the pinch distance changed
\* (controls.js 342-364); d is the movement of the midpoint in half pixels
TouchAdjust ==
    \E d \in TouchDeltas :
        /\ moves < MaxMoves
        /\ d[1] * d[1] + d[2] * d[2] > 16
        /\ moves' = moves + 1
        /\ LET newBrightness == viewer.brightness + d[1] * (PUnit \div 2)
               newContrast   == viewer.contrast - d[2] * (PUnit \div 2)
           IN  Handler(setContrast(setBrightness(this, newBrightness), newContrast))
        /\ setSinceLoad' = setSinceLoad \cup {"brightness", "contrast"}
        /\ UNCHANGED procVars

\* invertBtn.classList.toggle('active')
toggleActive(v) == [v EXCEPT !.invertActive = ~v.invertActive]

\* click on the invert button (controls.js 94-97)
InvertClick ==
    /\ Handler(toggleActive(toggleInvert(this)))
    /\ setSinceLoad' = IF hasImage(viewer) THEN setSinceLoad \cup {"isInverted"}
                       ELSE setSinceLoad
    /\ UNCHANGED moves
    /\ UNCHANGED procVars

\* case 'i' of the keydown handler of controls.js (525-532)
invertKeyControls(v) ==
    IF hasImage(v) THEN toggleActive(toggleInvert(v)) ELSE v

\* case 'i' of the keydown handler of utils.js (291-297), which returns
\* before the switch when no image is loaded (255)
invertKeyUtils(v) ==
    IF hasImage(v) THEN toggleActive(toggleInvert(v)) ELSE v

\* the I key with the focus outside an input field: the keydown handlers
\* of controls.js (525-532) and utils.js (291-297) both run
InvertKey ==
    /\ Handler(invertKeyUtils(invertKeyControls(this)))
    /\ setSinceLoad' = IF hasImage(viewer) THEN setSinceLoad \cup {"isInverted"}
                       ELSE setSinceLoad
    /\ UNCHANGED moves
    /\ UNCHANGED procVars

\* click on the reset button (controls.js 100-102)
ResetClick ==
    /\ Handler(resetAll(this))
    /\ UNCHANGED <<setSinceLoad, moves>>
    /\ UNCHANGED procVars

\* Ctrl+R: the keydown handlers of controls.js (515-523) and utils.js
\* (281-289) both run
ResetKey ==
    /\ hasImage(viewer)
    /\ Handler(resetAdjustments(resetAdjustments(this)))
    /\ UNCHANGED <<setSinceLoad, moves>>
    /\ UNCHANGED procVars

\* click on the reset-zoom button (controls.js 415-419)
ResetZoomClick ==
    /\ hasImage(viewer)
    /\ Handler(resetView(this))
    /\ UNCHANGED <<setSinceLoad, moves>>
    /\ UNCHANGED procVars

\* window 'resize' (main.js, utils.js 438-443)
WindowResize ==
    /\ hasImage(viewer)
    /\ Handler(processImage(resetView(this)))
    /\ UNCHANGED <<setSinceLoad, moves>>
    /\ UNCHANGED procVars

\* an image is loaded with no other load under way: loadImage /
\* loadImageFromUrl and the img.onload that follows (viewer.js 118-187)
ImageLoaded ==
    \E img \in 1..Len(Pictures) :
        /\ viewer.loading = << >>
        /\ Handler(onload([this EXCEPT !.lastStarted = img], img))
        /\ setSinceLoad' = {}
        /\ UNCHANGED moves
        /\ UNCHANGED procVars

\* the 16 ms timer of the debounce fires: later() (viewer.js 66-69)
DebounceTimer ==
    /\ viewer.timeout
    /\ Handler(processImage([this EXCEPT !.timeout = FALSE]))
    /\ UNCHANGED <<setSinceLoad, moves>>
    /\ UNCHANGED procVars

\* the browser runs a requested animation-frame callback (viewer.js 321-356)
AnimationFrame ==
    /\ viewer.frames > 0
    /\ fresh' = TRUE
    /\ Becomes(frameCallback(this))
    /\ UNCHANGED <<setSinceLoad, moves>>
    /\ UNCHANGED procVars

\* a pending animation-frame callback runs and a statement of its try block
\* throws
AnimationFrameThrows ==
    /\ viewer.frames > 0
    /\ \E at \in ThrowPoints :
          /\ at = "process" => hasAdjustments(this)
          /\ fresh' = FALSE
          /\ Becomes(frameCallbackThrowing(this, at))
    /\ UNCHANGED <<setSinceLoad, moves>>
    /\ UNCHANGED procVars

Next ==
    \/ BrightnessSliderInput
    \/ ContrastSliderInput
    \/ EdgeSliderInput
    \/ MouseAdjust
    \/ TouchAdjust
    \/ InvertClick
    \/ InvertKey
    \/ ResetClick
    \/ ResetKey
    \/ ResetZoomClick
    \/ WindowResize
    \/ ImageLoaded
    \/ DebounceTimer
    \/ AnimationFrame

Spec == Init /\ [][Next]_vars

(***************************************************************************)
(* The histogram panel: the viewer with the histogram button               *)
(***************************************************************************)
\* click on the histogram button (controls.js 120-139)
HistogramClick ==
    /\ LET isVisible == viewer.histogramPanel # "none"
           opened == [this EXCEPT !.histogramPanel = "block"]
       IN  Handler(IF isVisible THEN [this EXCEPT !.histogramPanel = "none"]
                   ELSE IF hasImage(opened) THEN drawHistogram(opened)
                   ELSE opened)
    /\ UNCHANGED <<setSinceLoad, moves>>
    /\ UNCHANGED procVars

PanelNext ==
    \/ HistogramClick
    \/ ImageLoaded
    \/ BrightnessSliderInput
    \/ InvertClick
    \/ DebounceTimer
    \/ AnimationFrame

SpecPanel == Init /\ [][PanelNext]_vars

(***************************************************************************)
(* Loads under way together: a load is started by a file chosen or dropped  *)
(* or a server image clicked, and ends when the browser has decoded the     *)
(* image; the loads under way end in any order                              *)
(***************************************************************************)
MaxLoads == 2

\* loadImage(file) / loadImageFromUrl(url) is called (controls.js 47, 455;
\* utils.js 91, 239)
LoadStarts ==
    \E img \in 1..Len(Pictures) :
        /\ Len(viewer.loading) < MaxLoads
        /\ Handler(loadStarted(this, img))
        /\ UNCHANGED <<setSinceLoad, moves>>
        /\ UNCHANGED procVars

\* img.onload of one of the loads under way fires
LoadFinishes ==
    \E k \in 1..Len(viewer.loading) :
        /\ Handler(onload([this EXCEPT !.loading = Without(@, k)], viewer.loading[k]))
        /\ setSinceLoad' = {}
        /\ UNCHANGED moves
        /\ UNCHANGED procVars

LoadNext ==
    \/ LoadStarts
    \/ LoadFinishes
    \/ InvertClick
    \/ AnimationFrame

SpecLoads == Init /\ [][LoadNext]_vars

(***************************************************************************)
(* Recomputes that fail: the viewer with the handlers that request a        *)
(* recompute, and callbacks that throw                                      *)
(***************************************************************************)
FaultNext ==
    \/ ImageLoaded
    \/ BrightnessSliderInput
    \/ InvertClick
    \/ DebounceTimer
    \/ AnimationFrame
    \/ AnimationFrameThrows

SpecFaults == Init /\ [][FaultNext]_vars
(***************************************************************************)
(* Zooming: the viewer with the handlers that change the zoom              *)
(***************************************************************************)
\* a zoom gesture that ends in v
ZoomGesture(v) ==
    /\ hasImage(viewer)
    /\ viewer.zooms < MaxZooms
    /\ Handler([v EXCEPT !.zooms = @ + 1])
    /\ UNCHANGED <<setSinceLoad, moves>>
    /\ UNCHANGED procVars

\* zoomAtPoint(rect.width / 2, rect.height / 2, zoomFactor)
zoomAtRectCentre(v, zoomFactor) ==
    zoomAtPoint(v, rectHalfWidth(v), rectHalfHeight(v), zoomFactor)

\* zoomAtPoint(canvas.width / 2, canvas.height / 2, zoomFactor)
zoomAtCanvasCentre(v, zoomFactor) ==
    zoomAtPoint(v, <<v.canvas.width, 2>>, <<v.canvas.height, 2>>, zoomFactor)

\* click on the zoom-in / zoom-out button (controls.js 401-413)
ZoomInClick == ZoomGesture(zoomAtRectCentre(this, ZOOM_BUTTON_FACTOR))
ZoomOutClick == ZoomGesture(zoomAtRectCentre(this, Inverse(ZOOM_BUTTON_FACTOR)))

\* MouseHandler.onWheel (controls.js 257-266)
Wheel ==
    \E zoomFactor \in {Inverse(ZOOM_WHEEL_FACTOR), ZOOM_WHEEL_FACTOR} :
        \E point \in ZoomPoints :
            ZoomGesture(zoomAtPoint(this, <<point[1], 1>>, <<point[2], 1>>, zoomFactor))

\* TouchHandler.onTouchMove, pinch (controls.js 333-341)
PinchZoom ==
    \E zoomFactor \in PinchFactors :
        \E point \in ZoomPoints :
            ZoomGesture(zoomAtPoint(this, <<point[1], 1>>, <<point[2], 1>>, zoomFactor))

\* the + and - keys: the keydown handlers of controls.js (476-491) and
\* utils.js (258-274, factor 1.2) both run
ZoomInKey ==
    ZoomGesture(zoomAtRectCentre(zoomAtRectCentre(this, ZOOM_BUTTON_FACTOR), <<6, 5>>))
ZoomOutKey ==
    ZoomGesture(zoomAtCanvasCentre(
                    zoomAtRectCentre(this, Inverse(ZOOM_BUTTON_FACTOR)), <<5, 6>>))

\* the 1 key (controls.js 500-505)
OneKey ==
    /\ hasImage(viewer)
    /\ Handler(setZoom(this, <<1, 1>>))
    /\ UNCHANGED <<setSinceLoad, moves>>
    /\ UNCHANGED procVars

\* the 0 key: controls.js (493-498) and utils.js (276-280) both call resetView
ResetZoomKey ==
    /\ hasImage(viewer)
    /\ Handler(resetView(resetView(this)))
    /\ UNCHANGED <<setSinceLoad, moves>>
    /\ UNCHANGED procVars

\* the container gets another size and window 'resize' runs (utils.js 438-443)
ContainerResize ==
    \E size \in ContainerSizes :
        /\ size # viewer.container
        /\ LET resized == [this EXCEPT !.container = size]
           IN  Handler(IF hasImage(resized) THEN processImage(resetView(resized))
                       ELSE resized)
        /\ UNCHANGED <<setSinceLoad, moves>>
        /\ UNCHANGED procVars

ZoomNext ==
    \/ ImageLoaded
    \/ ContainerResize
    \/ ZoomInClick
    \/ ZoomOutClick
    \/ Wheel
    \/ PinchZoom
    \/ ZoomInKey
    \/ ZoomOutKey
    \/ OneKey
    \/ ResetZoomClick
    \/ ResetZoomKey
    \/ ResetClick
    \/ AnimationFrame

SpecZoom == Init /\ [][ZoomNext]_vars

\* the handlers that make one zoomAtPoint call, with the loads and the
\* reset of the view
ZoomPointNext ==
    \/ ImageLoaded
    \/ ZoomInClick
    \/ ZoomOutClick
    \/ Wheel
    \/ PinchZoom
    \/ ResetZoomClick

SpecZoomPoint == Init /\ [][ZoomPointNext]_vars

\* ENABLED <<AnimationFrame>>_vars, as the state predicate it is equal to
\* (the callback always takes one request off viewer.frames or clears
\* processingQueued)
AnimationFrameEnabled == viewer.frames > 0

\* Timers and animation-frame callbacks that are pending do fire: weak
\* fairness of DebounceTimer and of AnimationFrame, the latter written out
\* with AnimationFrameEnabled.
FairSpec ==
    /\ Spec
    /\ WF_vars(DebounceTimer)
    /\ \/ []<>(~AnimationFrameEnabled)
       \/ []<><<AnimationFrame>>_vars

(***************************************************************************)
(* Claims about the image processor and the curve                           *)
(***************************************************************************)
Returned == ret # NoImageData
Output == mem[ret.data]
PixelCount(bytes) == Len(bytes) \div 4

\* every pixel is (g, g, g, 255)
IsFlatGray(bytes) ==
    \A pix \in 0..(PixelCount(bytes) - 1) :
        /\ At(bytes, 4 * pix + 1) = At(bytes, 4 * pix)
        /\ At(bytes, 4 * pix + 2) = At(bytes, 4 * pix)
        /\ At(bytes, 4 * pix + 3) = 255

\* C1: for a flat-gray pixel (g,g,g,255) processed with edgeEnhancement = 0,
\* the R byte process returns is within 0.5 of the curve sample drawn for
\* input g with the same brightness, contrast and invert.
C1_CurveMatchesPixels ==
    (Returned /\ transferCurve # << >> /\ params.edgeEnhancement = 0
        /\ IsFlatGray(before))
    => \A pix \in 0..(PixelCount(before) - 1) :
          LET g == At(before, 4 * pix)
          IN  Abs(Q200 * At(Output, 4 * pix) - transferCurve[g + 1]) <= Q200 \div 2

\* the ramp processed in the sigmoid range, inverted, with a half-step
\* brightness, and a mid-gray output that is neither 0 nor 255
C1_Witness ==
    /\ Returned /\ transferCurve # << >>
    /\ before = GrayRamp.bytes
    /\ params = Params(-41, 150, 0, TRUE)
    /\ At(Output, 4 * 90) \notin {0, 255}

\* C9: process with all four parameters at their defaults returns a buffer
\* whose bytes (and dimensions) equal the input's.
C9_IdentityAtDefaults ==
    (Returned /\ params = DefaultParams)
    => /\ Output = before
       /\ ret.width = imageData.width
       /\ ret.height = imageData.height

C9_Witness ==
    /\ Returned /\ params = DefaultParams
    /\ imageData.width = MaxWidth /\ imageData.height = MaxHeight
    /\ Output = PatternBytes(MaxWidth, MaxHeight, 1, 2, 0)

\* C10: process leaves the bytes of its source buffer as they were at the
\* call and returns a buffer of the same width and height, also when edge
\* enhancement allocates a second buffer.
C10_SourceNotMutated ==
    Returned
    => /\ mem[imageData.data] = before
       /\ ret.width = imageData.width
       /\ ret.height = imageData.height
       /\ Len(Output) = 4 * ret.width * ret.height

\* edge enhancement ran on a 3x3 (or larger) image after brightness/contrast
\* and inversion: three arrays exist and the output differs from the source
C10_Witness ==
    /\ Returned
    /\ params.edgeEnhancement > 0 /\ params.invert /\ params.brightness # 0
    /\ imageData.width = MaxWidth /\ imageData.height = MaxHeight
    /\ Len(mem) = 3
    /\ ret.data = 3
    /\ Output # before

\* C11: the alpha byte of every pixel process returns equals the alpha byte
\* of the same pixel of the input, for all parameter values and in both
\* contrast regimes: none of the three stages writes the alpha channel.
C11_AlphaPreserved ==
    Returned
    => \A pix \in 0..(PixelCount(before) - 1) :
          At(Output, 4 * pix + 3) = At(before, 4 * pix + 3)

\* all three stages ran (extreme regime, inversion, edge enhancement) on an
\* image with opaque, half-transparent and transparent pixels; the colour
\* bytes changed
C11_Witness ==
    /\ Returned
    /\ useExtremeContrast(params.contrast) /\ params.invert
    /\ params.edgeEnhancement > 0
    /\ before = PatternBytes(MaxWidth, MaxHeight, 1, 2, 0)
    /\ {At(before, 4 * pix + 3) : pix \in 0..(PixelCount(before) - 1)}
           = {0, 128, 255}
    /\ Output # before

\* the three stages as the specification names them, each the identity
\* exactly when its parameters make it a no-op
StageBC(d, p) ==
    IF p.brightness = 0 /\ p.contrast = 0 THEN d
    ELSE applyBrightnessContrast(d, p.brightness, p.contrast)

StageInvert(d, p) == IF p.invert THEN applyInversion(d) ELSE d

StageEdge(d, width, height, p) ==
    IF p.edgeEnhancement = 0 THEN d
    ELSE [k \in DOMAIN d |-> EdgeByte(d, width, height, k - 1, p.edgeEnhancement)]

\* C12: the buffer process returns is Edge(Invert(BC(source))): brightness/
\* contrast first, inversion second, edge enhancement last, a stage being
\* skipped exactly when brightness = 0 and contrast = 0, when invert is
\* false, when edgeEnhancement = 0.
C12_StageOrder ==
    Returned
    => Output = StageEdge(StageInvert(StageBC(before, params), params),
                          imageData.width, imageData.height, params)

\* all three stages ran on an image with an interior pixel, with
\* parameters for which inverting before brightness/contrast, or
\* sharpening before inverting, would have given other bytes
C12_Witness ==
    /\ Returned
    /\ params.brightness # 0 /\ params.invert /\ params.edgeEnhancement > 0
    /\ imageData.width = MaxWidth /\ imageData.height = MaxHeight
    /\ StageBC(StageInvert(before, params), params)
           # StageInvert(StageBC(before, params), params)
    /\ Output # StageInvert(
                    StageEdge(StageBC(before, params), imageData.width,
                              imageData.height, params), params)
    /\ Output # StageInvert(StageBC(before, params), params)

InvertOnly == Params(0, 0, 0, TRUE)

\* C13: inversion is an involution: applyInversion applied twice gives the
\* bytes it started from, and process with only invert set, applied to
\* its own result, returns the bytes of the original source.
C13_InversionInvolution ==
    /\ Returned => applyInversion(applyInversion(Output)) = Output
    /\ (again # NoImageData /\ params = InvertOnly)
       => /\ mem[again.data] = before
          /\ Output = applyInversion(before)

\* the second invert-only pass has returned the source of the first, which
\* the first pass had changed in every colour byte
C13_Witness ==
    /\ again # NoImageData /\ params = InvertOnly
    /\ before = PatternBytes(MaxWidth, MaxHeight, 1, 2, 0)
    /\ \A i \in 0..(Len(before) - 1) :
          i % 4 # 3 => At(Output, i) # At(before, i)
    /\ mem[again.data] = before
    /\ again.data # ret.data /\ ret.data # imageData.data

\* the normal-regime formula of the specification, in 1/Q200:
\* clamp((input - 128) * f + 128 + brightness, 0, 255), f = (contrast + 100)/100
\* for contrast <= 0 and f = 1 + (contrast / 50) * 3 for 0 < contrast <= 50
SpecFactor(contrast) ==
    IF contrast <= 0
       THEN (Q200 * (contrast + 100 * PUnit)) \div (100 * PUnit)
       ELSE Q200 + (3 * Q200 * contrast) \div (50 * PUnit)

SpecNormal(input, brightness, contrast) ==
    Max(0, Min(255 * Q200,
        (input - 128) * SpecFactor(contrast) + 128 * Q200
            + (Q200 * brightness) \div PUnit))

\* the value of the regime the specification selects, in 1/Q200, for one
\* colour byte (input) of a pixel of luminance lum (in 1/Q1000)
SpecRegimeValue(input, lum, brightness, contrast) ==
    IF contrast <= 50 * PUnit
       THEN SpecNormal(input, brightness, contrast)
       ELSE ExtremeValue(lum + brightness * (Q1000 \div PUnit), contrast)

\* C20: for every contrast <= 50, exactly 50 included, the processor and
\* the transfer curve both use the normal regime: each of R, G, B becomes
\* clamp((input - 128) * f + 128 + brightness, 0, 255) (the curve holds this
\* value, the byte array holds it rounded to the nearest byte); brightness
\* 20, contrast 0, input 100 gives 120; for every contrast > 50 both use
\* the extreme regime.  Stated for invert off and edgeEnhancement 0, where
\* the buffer is the output of the brightness/contrast stage.
C20_RegimeBoundary ==
    /\ (Returned /\ params.edgeEnhancement = 0 /\ ~params.invert)
       => \A pix \in 0..(PixelCount(before) - 1) : \A channel \in 0..2 :
             At(Output, 4 * pix + channel)
                 = ToUint8Clamped(
                       SpecRegimeValue(
                           At(before, 4 * pix + channel),
                           Luminance(At(before, 4 * pix), At(before, 4 * pix + 1),
                                     At(before, 4 * pix + 2)),
                           params.brightness, params.contrast),
                       Q200)
    /\ (transferCurve # << >> /\ ~params.invert)
       => \A input \in 0..255 :
             transferCurve[input + 1]
                 = Max(0, Min(255 * Q200,
                       SpecRegimeValue(input, input * Q1000,
                                       params.brightness, params.contrast)))
    /\ (Returned /\ before = GrayRamp.bytes
            /\ params = Params(20 * PUnit, 0, 0, FALSE))
       => At(Output, 4 * 100) = 120

\* contrast exactly 50 with brightness 20 on the gray ramp: the factor is
\* 4, input 100 gives (100 - 128) * 4 + 128 + 20 = 36 in the buffer and on
\* the curve, where the extreme regime would give a value near 0
C20_Witness ==
    /\ Returned /\ transferCurve # << >>
    /\ before = GrayRamp.bytes
    /\ params = Params(20 * PUnit, 50 * PUnit, 0, FALSE)
    /\ At(Output, 4 * 100) = 36
    /\ transferCurve[100 + 1] = 36 * Q200

\* counts[lo] + ... + counts[hi]
RECURSIVE SumRange(_, _, _)
SumRange(counts, lo, hi) ==
    IF lo > hi THEN 0
    ELSE IF lo = hi THEN counts[lo]
    ELSE LET mid == (lo + hi) \div 2
         IN  SumRange(counts, lo, mid) + SumRange(counts, mid + 1, hi)

Channels == {"red", "green", "blue", "luminance"}

\* the pixels of bytes whose byte at offset channel is level
PixelsAt(bytes, channel, level) ==
    { pix \in 0..(PixelCount(bytes) - 1) : At(bytes, 4 * pix + channel) = level }

\* the pixels of bytes whose luminance is within one half of level
PixelsNear(bytes, level) ==
    { pix \in 0..(PixelCount(bytes) - 1) :
        2 * Abs(Luminance(At(bytes, 4 * pix), At(bytes, 4 * pix + 1),
                          At(bytes, 4 * pix + 2)) - level * Q1000) <= Q1000 }

\* C14: calculateHistogram returns four sequences of 256 non-negative
\* counts; red, green, blue and luminance each sum to width * height; red,
\* green and blue count the pixels with that byte value, and a pixel is
\* counted in the luminance bucket round(0.299 R + 0.587 G + 0.114 B), which
\* is in 0..255; an empty buffer gives all-zero counts.
C14_HistogramCounts ==
    histogram # NoHistogram
    => /\ \A c \in Channels :
            /\ Len(histogram[c]) = 256
            /\ \A k \in 1..256 : histogram[c][k] \in Nat
            /\ SumRange(histogram[c], 1, 256) = imageData.width * imageData.height
       /\ \A level \in 0..255 :
            /\ histogram.red[level + 1] = Cardinality(PixelsAt(before, 0, level))
            /\ histogram.green[level + 1] = Cardinality(PixelsAt(before, 1, level))
            /\ histogram.blue[level + 1] = Cardinality(PixelsAt(before, 2, level))
            /\ histogram.luminance[level + 1] <= Cardinality(PixelsNear(before, level))
       /\ before = << >> => \A c \in Channels : histogram[c] = Zeros256

\* a full-size image with several colours, one of them with a luminance
\* ending in .5, has been counted: more than one luminance bucket is filled
C14_Witness ==
    /\ histogram # NoHistogram
    /\ imageData.width = MaxWidth /\ imageData.height = MaxHeight
    /\ before = HistogramBytes(MaxWidth, MaxHeight, 1, 2, 0)
    /\ histogram.luminance[22 + 1] > 0
    /\ histogram.luminance[255 + 1] > 0
    /\ histogram.luminance[103 + 1] > 0
    /\ histogram.red[200 + 1] > 0

\* the pixel a hard threshold gives: white when luminance + brightness is
\* above 128 - (contrast - 50) * 2.36, black otherwise (compared in 1/2000)
ThresholdLevel(r, g, b, brightness, contrast) ==
    IF 2 * (299 * r + 587 * g + 114 * b) * PUnit + 2000 * brightness
           > 2 * 128000 * PUnit - (contrast - 50 * PUnit) * 4720
       THEN 255 ELSE 0

C22_ExtremeRegimeIsGray ==
    (Returned /\ params.contrast > 50 * PUnit /\ params.edgeEnhancement = 0)
    => \A pix \in 0..(PixelCount(before) - 1) :
          /\ At(Output, 4 * pix + 1) = At(Output, 4 * pix)
          /\ At(Output, 4 * pix + 2) = At(Output, 4 * pix)

\* a pixel with three different colour bytes came out of the sigmoid as a
\* mid gray
C22_Witness ==
    /\ Returned
    /\ params.contrast > 50 * PUnit /\ params.contrast < 95 * PUnit
    /\ params.edgeEnhancement = 0
    /\ \E pix \in 0..(PixelCount(before) - 1) :
          /\ At(before, 4 * pix) # At(before, 4 * pix + 1)
          /\ At(before, 4 * pix + 1) # At(before, 4 * pix + 2)
          /\ At(Output, 4 * pix) \notin {0, 255}
          /\ At(Output, 4 * pix + 1) = At(Output, 4 * pix)
          /\ At(Output, 4 * pix + 2) = At(Output, 4 * pix)
\* the buffer edge enhancement reads: the source after brightness/contrast
\* and inversion
PreEdge == StageInvert(StageBC(before, params), params)

IsBorder(x, y, width, height) ==
    x = 0 \/ y = 0 \/ x = width - 1 \/ y = height - 1

\* the four bytes of pixel (x, y) of a buffer of the given width
PixelAt(bytes, width, x, y) ==
    [channel \in 0..3 |-> At(bytes, (y * width + x) * 4 + channel)]

\* C23: for every edgeEnhancement > 0 each pixel in row 0, the last row,
\* column 0 or the last column of the output is byte-identical to the same
\* pixel of the pre-edge buffer, and an image with width < 3 or height < 3
\* is returned unchanged.
C23_BorderUntouched ==
    (Returned /\ params.edgeEnhancement > 0)
    => /\ \A x \in 0..(imageData.width - 1) : \A y \in 0..(imageData.height - 1) :
             IsBorder(x, y, imageData.width, imageData.height)
             => PixelAt(Output, imageData.width, x, y)
                    = PixelAt(PreEdge, imageData.width, x, y)
       /\ (imageData.width < 3 \/ imageData.height < 3) => Output = PreEdge

\* a 3 x 3 image sharpened after brightness/contrast and inversion: the
\* centre pixel changed, the eight border pixels did not
C23_Witness ==
    /\ Returned
    /\ params.edgeEnhancement > 0 /\ params.invert /\ params.brightness # 0
    /\ imageData.width = 3 /\ imageData.height = 3
    /\ PixelAt(Output, 3, 1, 1) # PixelAt(PreEdge, 3, 1, 1)
    /\ \A x \in 0..2 : \A y \in 0..2 :
          <<x, y>> # <<1, 1>> => PixelAt(Output, 3, x, y) = PixelAt(PreEdge, 3, x, y)
    /\ \E x \in 0..2 : \E y \in 0..2 :
          <<x, y>> # <<1, 1>> /\ PixelAt(PreEdge, 3, x, y)[0] \notin {0, 255}

\* v + (4*v - up - down - left - right) * strength * 0.1 clamped to
\* [0, 255], in 1/100, for the byte at (x, y, channel) of bytes
Sharpened(bytes, width, x, y, channel, strength) ==
    LET px(xx, yy) == At(bytes, (yy * width + xx) * 4 + channel)
        v == px(x, y)
        laplacian == 4 * v - px(x, y - 1) - px(x, y + 1) - px(x - 1, y) - px(x + 1, y)
    IN  Max(0, Min(25500, 100 * v + (laplacian * strength * 10) \div EUnit))

\* C24: for every interior pixel and each of R, G, B the output is
\* clamp(v + (4*v - up - down - left - right) * strength * 0.1, 0, 255),
\* stored as the nearest byte, with v and its four neighbours all read from
\* the pre-edge buffer (so the order of the pixels does not matter); the
\* alpha byte is the pre-edge one.
C24_EdgeFormula ==
    (Returned /\ params.edgeEnhancement > 0)
    => \A x \in 1..(imageData.width - 2) : \A y \in 1..(imageData.height - 2) :
          /\ \A channel \in 0..2 :
                At(Output, (y * imageData.width + x) * 4 + channel)
                    = ToUint8Clamped(
                          Sharpened(PreEdge, imageData.width, x, y, channel,
                                    params.edgeEnhancement),
                          100)
          /\ At(Output, (y * imageData.width + x) * 4 + 3)
                 = At(PreEdge, (y * imageData.width + x) * 4 + 3)

\* an image with two interior pixels side by side, each the neighbour of
\* the other: both were changed, the left one in a channel where the right
\* one is neither 0 nor 255
C24_Witness ==
    /\ Returned
    /\ params.edgeEnhancement > 0
    /\ imageData.width = MaxWidth + 1 /\ imageData.height = MaxHeight
    /\ \A x \in 1..(imageData.width - 2) :
          PixelAt(Output, imageData.width, x, 1) # PixelAt(PreEdge, imageData.width, x, 1)
    /\ \E channel \in 0..2 :
          /\ At(Output, (imageData.width + 2) * 4 + channel) \notin {0, 255}
          /\ At(Output, (imageData.width + 1) * 4 + channel)
                 # At(PreEdge, (imageData.width + 1) * 4 + channel)
\* viewers that differ from one another in edgeEnhancement and in the
\* image loaded and shown
OtherViewers(pr) ==
    { ViewerHolding(Params(pr.brightness, pr.contrast, e, pr.invert),
                    [bytes |-> Pictures[img].bytes, width |-> Pictures[img].width,
                     height |-> Pictures[img].height]) :
        e \in {0, 10 * EUnit}, img \in DOMAIN Pictures }

\* C25: the transfer curve is a function of brightness, contrast and invert
\* only: the 256 samples drawn in a viewer are those drawn in every viewer
\* that holds the same three values, whatever its edgeEnhancement and its
\* image.
C25_CurveIgnoresEdgeAndImage ==
    transferCurve # << >>
    => \A other \in OtherViewers(params) :
          drawTransferCurve(other) = transferCurve

\* the curve of a viewer with edge enhancement 10 on a 3 x 3 colour image,
\* in the sigmoid range and inverted; it is not the identity
C25_Witness ==
    /\ transferCurve # << >>
    /\ params.edgeEnhancement = 10 * EUnit /\ params.invert
    /\ params.contrast = 94 * PUnit + 1
    /\ before = PatternBytes(MaxWidth, MaxHeight, 1, 2, 0)
    /\ transferCurve # curve(0, 0, FALSE)
    /\ \E k \in 1..256 : transferCurve[k] \notin {0, 255 * Q200}
(***************************************************************************)
(* Claims about the viewer                                                  *)
(***************************************************************************)
Picture(v) == Pictures[v.originalImage]

\* process(original image, current parameters)
ExpectedBytes(v) ==
    ProcessedBytes(Picture(v).bytes, Picture(v).width, Picture(v).height,
                   CurrentParams(v))

\* the canvas shows the original image processed with the current parameters
UpToDate == hasImage(viewer) /\ canvas.bytes = ExpectedBytes(viewer)

AtDefaults(v) == CurrentParams(v) = DefaultParams

\* a step in which the animation-frame callback runs: only the callback
\* clears isProcessing or takes the queued request
RecomputeRuns ==
    /\ viewer.isProcessing
    /\ \/ ~viewer'.isProcessing
       \/ viewer.processingQueued /\ ~viewer'.processingQueued

\* C2: every recompute leaves on the canvas process(original image, current
\* parameters), whatever was displayed before; with all parameters at their
\* defaults that is the original image itself.
C2_NotCumulative ==
    [][RecomputeRuns =>
          /\ canvas'.bytes = ExpectedBytes(viewer)
          /\ canvas'.width = Picture(viewer).width
          /\ canvas'.height = Picture(viewer).height
          /\ AtDefaults(viewer) => canvas'.bytes = Picture(viewer).bytes]_vars

\* several adjustments made one after the other (slider, drag, invert) and
\* recomputed: the canvas shows the original processed once with them
C2_Witness ==
    /\ UpToDate
    /\ viewer.brightness = 41 /\ viewer.isInverted /\ viewer.edgeEnhancement = 25
    /\ viewer.originalImage = 1
    /\ viewer.frames = 0 /\ ~viewer.timeout
    /\ canvas.bytes # Picture(viewer).bytes

ParamNames == {"brightness", "contrast", "edgeEnhancement", "isInverted"}

IsDefault(v, p) ==
    CASE p = "brightness"      -> v.brightness = 0
      [] p = "contrast"        -> v.contrast = 0
      [] p = "edgeEnhancement" -> v.edgeEnhancement = 0
      [] p = "isInverted"      -> v.isInverted = FALSE

\* C3: a recompute never renders with a non-default value of a parameter
\* that no setter has written since the last image load.
C3_LoadResetsParameters ==
    [][RecomputeRuns =>
          \A p \in ParamNames : ~IsDefault(viewer, p) => p \in setSinceLoad]_vars

\* a load made while the debounce timer of an earlier setter was pending,
\* and the new image recomputed with the timer still pending
C3_Witness ==
    /\ hasImage(viewer)
    /\ setSinceLoad = {}
    /\ viewer.timeout
    /\ ~viewer.isProcessing
    /\ canvas.bytes = Picture(viewer).bytes

\* C4: brightness and contrast are always in [-100,100] and edgeEnhancement
\* in [0,10], so process is only ever called with values in these domains.
C4_ParametersInDomain ==
    /\ viewer.brightness \in (-100 * PUnit)..(100 * PUnit)
    /\ viewer.contrast \in (-100 * PUnit)..(100 * PUnit)
    /\ viewer.edgeEnhancement \in 0..(10 * EUnit)

\* a two-finger drag overshot the contrast domain and the image was
\* recomputed with the clamped value
C4_Witness ==
    /\ viewer.contrast = 100 * PUnit
    /\ moves > 0
    /\ UpToDate
    /\ canvas.bytes # Picture(viewer).bytes

\* C5: brightness and contrast are always integers.
C5_IntegerParameters ==
    /\ viewer.brightness % PUnit = 0
    /\ viewer.contrast % PUnit = 0

\* C6: at most one animation-frame callback is pending at any time.
C6_OneRecomputeInFlight ==
    /\ viewer.frames <= 1
    /\ viewer.isProcessing <=> viewer.frames = 1

\* requests arrived while a recompute was in flight
C6_Witness ==
    /\ viewer.frames = 1
    /\ viewer.isProcessing
    /\ viewer.processingQueued
    /\ viewer.timeout

\* C7: with an image loaded, whenever the canvas is not the result of a
\* recompute made with the values the viewer holds now, such a recompute
\* eventually runs (pending timers and animation frames firing); every
\* recompute uses the values held when it runs, and while they do not change
\* the canvas shows process(original image, these values).
C7_LastWriteWins ==
    /\ [](fresh => UpToDate)
    /\ [][RecomputeRuns => fresh']_vars
    /\ (hasImage(viewer) /\ ~fresh) ~> fresh

\* the final values of a series of changes are on the canvas, nothing pending
C7_Witness ==
    /\ fresh /\ UpToDate
    /\ viewer.brightness = 20 * PUnit /\ viewer.contrast = 100 * PUnit
    /\ viewer.isInverted
    /\ viewer.frames = 0 /\ ~viewer.timeout /\ ~viewer.processingQueued

SetterStep ==
    \/ BrightnessSliderInput
    \/ ContrastSliderInput
    \/ EdgeSliderInput
    \/ MouseAdjust
    \/ TouchAdjust
    \/ InvertClick

\* C8: resetAll / resetAdjustments leave the four parameters at their
\* defaults, and they stay there until the next setter or toggleInvert call.
C8_ResetRestoresDefaults ==
    [][/\ (ResetClick \/ ResetKey) => AtDefaults(viewer')
       /\ (AtDefaults(viewer) /\ ~SetterStep) => AtDefaults(viewer')]_vars

\* the edge slider was used since the load and the values are at their
\* defaults again (only a reset does that), with the debounce timer and a
\* queued recompute of earlier changes still outstanding
C8_Witness ==
    /\ AtDefaults(viewer)
    /\ "edgeEnhancement" \in setSinceLoad
    /\ viewer.timeout
    /\ viewer.isProcessing /\ viewer.processingQueued

\* C15: in every reachable state the zoom is within CONFIG.MIN_ZOOM = 0.1
\* and CONFIG.MAX_ZOOM = 10, whatever sequence of zoomAtPoint, setZoom,
\* resetView, resetAll and image loads ran, for every image and container.
C15_ZoomInRange ==
    /\ ~FracLess(viewer.zoom, MIN_ZOOM)
    /\ ~FracLess(MAX_ZOOM, viewer.zoom)

\* C16: with an image loaded and the focus outside an input field, one
\* press of the I key toggles inversion: once every keydown handler has
\* run, isInverted is the negation of what it was before the key press.
C16_KeyTogglesInvert ==
    [][InvertKey => viewer'.isInverted = ~viewer.isInverted]_vars

\* C17: processImage calls that arrive while a recompute is in flight are
\* merged: they schedule nothing themselves, and when the recompute in
\* flight completes exactly one further recompute is scheduled if one or
\* more calls arrived, and none if no call arrived.
C17_RequestsCoalesced ==
    /\ [](viewer.arrived > 0 => viewer.isProcessing /\ viewer.frames = 1)
    /\ [][(viewer.isProcessing /\ ~RecomputeRuns)
             => viewer'.frames = viewer.frames /\ viewer'.isProcessing]_vars
    /\ [][RecomputeRuns
             => /\ viewer'.frames = (IF viewer.arrived > 0 THEN 1 ELSE 0)
                /\ viewer'.isProcessing = (viewer.arrived > 0)
                /\ ~viewer'.processingQueued
                /\ viewer'.arrived = 0]_vars

\* several calls have arrived during the recompute in flight, which has not
\* completed yet: one callback is pending and the request flag is set
C17_Witness ==
    /\ viewer.arrived = MaxArrived
    /\ viewer.arrived >= 2
    /\ viewer.isProcessing /\ viewer.processingQueued
    /\ viewer.frames = 1

\* a step of a handler that only calls setBrightness, setContrast or
\* setEdgeEnhancement
DebouncedSetterStep ==
    \/ BrightnessSliderInput
    \/ ContrastSliderInput
    \/ EdgeSliderInput
    \/ MouseAdjust
    \/ TouchAdjust

\* what one call of processImage does to the viewer
OneProcessImageCall ==
    IF ~hasImage(viewer)
       THEN /\ viewer'.frames = viewer.frames
            /\ viewer'.isProcessing = viewer.isProcessing
    ELSE IF viewer.isProcessing
       THEN /\ viewer'.frames = viewer.frames
            /\ viewer'.processingQueued
            /\ viewer'.arrived = Min(viewer.arrived + 1, MaxArrived)
    ELSE /\ viewer'.frames = viewer.frames + 1
         /\ viewer'.isProcessing

\* C19: setBrightness, setContrast and setEdgeEnhancement store the value
\* at once and do not call processImage: they (re)arm the one 16 ms timer.
\* processImage is called when that timer fires, once per firing; as every
\* call of a burst re-arms the timer before it can fire, a burst ends in
\* exactly one processImage call, after its last setter call.
C19_DebouncedToLastValue ==
    /\ [][BrightnessSliderInput
             => viewer'.brightness \in {value * PUnit : value \in SliderBrightness}]_vars
    /\ [][ContrastSliderInput
             => viewer'.contrast \in {value * PUnit : value \in SliderContrast}]_vars
    /\ [][EdgeSliderInput => viewer'.edgeEnhancement \in SliderEdge]_vars
    /\ [][DebouncedSetterStep
             => /\ viewer'.timeout
                /\ viewer'.frames = viewer.frames
                /\ viewer'.isProcessing = viewer.isProcessing
                /\ viewer'.processingQueued = viewer.processingQueued
                /\ viewer'.arrived = viewer.arrived
                /\ canvas' = canvas]_vars
    /\ [][DebounceTimer => ~viewer'.timeout /\ OneProcessImageCall]_vars
    /\ [][(viewer.timeout /\ ~viewer'.timeout) => OneProcessImageCall]_vars

\* in the middle of a burst: the three setters have been called since the
\* load, the values are stored, the timer is armed, and no recompute has
\* been requested or run since the canvas was drawn from the defaults
C19_Witness ==
    /\ hasImage(viewer)
    /\ setSinceLoad = {"brightness", "contrast", "edgeEnhancement"}
    /\ viewer.brightness = 20 * PUnit /\ viewer.contrast = 60 * PUnit
    /\ viewer.edgeEnhancement = 25
    /\ viewer.timeout
    /\ viewer.frames = 0 /\ ~viewer.isProcessing /\ ~viewer.processingQueued
    /\ canvas.bytes = Picture(viewer).bytes

\* the luminance bars of a buffer, for both directions of a rounding tie
Bars(bytes) == { calculateHistogram(bytes, tie).luminance : tie \in {0, 1} }

\* C18: whenever drawHistogram has drawn the luminance bars together with
\* the transfer curve, the bars are those of the image processed with
\* exactly the parameter values the curve was computed from, also when the
\* panel is opened while a recompute is pending and right after a load.
C18_BarsMatchCurve ==
    viewer.histogramCanvas # NoDrawing
    => LET drawn == viewer.histogramCanvas
           img == Pictures[drawn.image]
       IN  Bars(drawn.source)
               = Bars(IF drawn.params = DefaultParams THEN img.bytes
                      ELSE ProcessedBytes(img.bytes, img.width, img.height,
                                          drawn.params))

\* C26: once an event handler has finished, the 'active' indicator of the
\* invert button equals the viewer's isInverted flag, for every sequence of
\* invert-button clicks, I key presses, resets and image loads, clicks made
\* while no image is loaded included.
C26_ButtonShowsInvert == viewer.invertActive = viewer.isInverted
\* a step in which an animation-frame callback runs: only a callback takes
\* a pending frame or the queued request
FrameEnds ==
    /\ viewer.frames > 0
    /\ \/ viewer'.frames < viewer.frames
       \/ viewer.processingQueued /\ ~viewer'.processingQueued

\* C27: isProcessing never stays set after a recompute ends: when the
\* animation-frame callback finishes, normally or by throwing during drawing
\* or processing, isProcessing is false again unless a request was queued
\* meanwhile, and then that request has been started (the flag is set with
\* a new callback pending); the flag is set only while a callback is
\* pending, so that no later processImage call is swallowed for good.
C27_FlagClearedOnThrow ==
    /\ [](viewer.isProcessing => viewer.frames = 1)
    /\ [](viewer.processingQueued => viewer.isProcessing)
    /\ [][FrameEnds =>
             /\ ~viewer'.processingQueued
             /\ viewer.processingQueued
                => viewer'.isProcessing /\ viewer'.frames = 1
             /\ ~viewer.processingQueued
                => ~viewer'.isProcessing /\ viewer'.frames = 0]_vars

\* process threw in a callback: the canvas shows the unprocessed original
\* under parameters that are not the defaults, nothing is pending and the
\* flag is clear
C27_Witness ==
    /\ hasImage(viewer)
    /\ hasAdjustments(viewer)
    /\ canvas.bytes = Picture(viewer).bytes
    /\ ~viewer.isProcessing /\ ~viewer.processingQueued
    /\ ~viewer.timeout /\ viewer.frames = 0
\* C28: hasUnsavedChanges() returns true exactly when an image has been
\* loaded and at least one of brightness, contrast, edgeEnhancement,
\* isInverted differs from its default; it is false before any image load,
\* right after every image load and right after resetAdjustments().
C28_UnsavedChanges ==
    /\ [](hasUnsavedChanges(viewer) <=> (hasImage(viewer) /\ ~AtDefaults(viewer)))
    /\ [](~hasImage(viewer) => ~hasUnsavedChanges(viewer))
    /\ [][(ImageLoaded \/ ResetKey \/ ResetClick) => ~hasUnsavedChanges(viewer')]_vars

\* changes made to a loaded image are reported; before the load, with the
\* sliders already moved, none were
C28_Witness ==
    /\ hasImage(viewer)
    /\ viewer.brightness = 20 * PUnit /\ viewer.isInverted
    /\ viewer.contrast = 0 /\ viewer.edgeEnhancement = 0
    /\ hasUnsavedChanges(viewer)
\* C29: when the image loads that were started have all finished, the image
\* held as originalImage and the file name updateInfo shows are those of the
\* load started last, whatever the order in which the onload callbacks fired.
C29_LastStartedLoadWins ==
    (viewer.loading = << >> /\ viewer.lastStarted # 0)
    => /\ viewer.originalImage = viewer.lastStarted
       /\ viewer.imageName = viewer.lastStarted
\* the factors the handlers pass to zoomAtPoint
ZoomFactors ==
    { ZOOM_BUTTON_FACTOR, Inverse(ZOOM_BUTTON_FACTOR), ZOOM_WHEEL_FACTOR,
      Inverse(ZOOM_WHEEL_FACTOR) } \cup PinchFactors

\* the coordinate of the image that is shown at coordinate point of the
\* canvas rectangle
ImagePoint(point, pan, zoom) == FracDiv(FracMinus(point, pan), zoom)

\* C30: a zoomAtPoint call whose resulting zoom (zoom * zoomFactor) would be
\* below MIN_ZOOM or above MAX_ZOOM changes nothing: zoom, panX and panY keep
\* their values; an accepted call changes the zoom to zoom * zoomFactor and
\* moves the pan so that the image point under (pointX, pointY) is the same
\* before and after.  Stated of every call that can be made in a reachable
\* state of the viewer.
C30_ZoomAtPoint ==
    hasImage(viewer)
    => \A zoomFactor \in ZoomFactors : \A point \in ZoomPoints :
          LET pointX == <<point[1], 1>>
              pointY == <<point[2], 1>>
              after  == zoomAtPoint(this, pointX, pointY, zoomFactor)
              target == FracTimes(viewer.zoom, zoomFactor)
          IN  IF FracLess(target, MIN_ZOOM) \/ FracLess(MAX_ZOOM, target)
                 THEN after = this
                 ELSE /\ after.zoom = target
                      /\ ImagePoint(pointX, after.panX, after.zoom)
                             = ImagePoint(pointX, viewer.panX, viewer.zoom)
                      /\ ImagePoint(pointY, after.panY, after.zoom)
                             = ImagePoint(pointY, viewer.panY, viewer.zoom)
                      /\ after = [this EXCEPT !.zoom = after.zoom,
                                              !.panX = after.panX,
                                              !.panY = after.panY]

\* a pinch by 4 at (2, 1) was accepted: zoom 4 and the pan moved to
\* (-6, -3), so that image point (2, 1) is still under (2, 1); the same
\* pinch again would give 16 and is refused, a wheel step is accepted
C30_Witness ==
    /\ hasImage(viewer)
    /\ viewer.zoom = <<4, 1>>
    /\ viewer.panX = <<-6, 1>> /\ viewer.panY = <<-3, 1>>
    /\ zoomAtPoint(this, <<2, 1>>, <<1, 1>>, <<4, 1>>) = this
    /\ zoomAtPoint(this, <<2, 1>>, <<1, 1>>, ZOOM_WHEEL_FACTOR).zoom = <<22, 5>>
====
